---- MODULE Spec2Model ----
(***************************************************************************)
(* Model of PTWUnidos/PTWUnidos.py: the serial command layer of the PTW    *)
(* UNIDOS electrometer.  The program is one sequential thread; its         *)
(* position is pc (labels are source line numbers) plus a stack of return  *)
(* labels for the nested method calls.  Every _sendCommand is two steps:   *)
(* the write of the request and the read of the reply (serial.query).      *)
(* The electrometer is the environment: its menu cursor is simulated (one  *)
(* level per command), every other reply is drawn from a small set.        *)
(***************************************************************************)
EXTENDS Integers, Sequences, FiniteSets, TLC

VARIABLES pc, stack, op, loc, err, out, log, wire, serialOpen, now, pos, faults

vars == <<pc, stack, op, loc, err, out, log, wire, serialOpen, now, pos, faults>>

(* ------------------------------ bounds --------------------------------- *)

\* Replies that do not echo the command, per public operation.
MaxFaults == 1
\* Status polls answered "INT" (or "NUL") in one wait loop.
MaxPolls == 2
\* Largest index of the cursor in the top-level menu of the simulated device.
MaxItem == 2

(* ------------------------- strings and numbers ------------------------- *)

Digits == <<"0", "1", "2", "3", "4", "5", "6", "7", "8", "9">>

DigitOf(c) == CHOOSE n \in 0..9 : Digits[n + 1] = c

CharOf(n) == Digits[n + 1]

\* No request in flight on the serial line.
None == "-"

\* A reply line that is not the echo of any command.
Garbled == "??"

\* The root ("setup") position code.
Root == <<"0", "0">>

(* ------------------------- simulated electrometer ---------------------- *)

\* Position codes the cursor of the simulated device can be at when the
\* session is opened: a mode digit, a top-level index, and up to two nested
\* menu levels.
PositionCodes ==
    LET top == { <<m, CharOf(k)>> : m \in {"0", "1"}, k \in 0..MaxItem }
        lvl == { <<"0", "0">>, <<"0", "1">> }
    IN  top \cup { t \o a : t \in top, a \in lvl }
            \cup { t \o a \o <<"0", "0">> : t \in top, a \in lvl }

\* The cursor after the device has executed a command.  "C" leaves a menu
\* level, "M0" selects mode 0, "U"/"D" move the cursor inside a menu (and
\* edit the value inside a field, where the cursor stays), "E" enters a
\* menu level or confirms and closes a field.
DeviceMove(command, p) ==
    LET n    == Len(p)
        last == DigitOf(p[n])
    IN  CASE command = "C"  -> IF n > 2 THEN SubSeq(p, 1, n - 2) ELSE p
          [] command = "M0" -> [p EXCEPT ![1] = "0"]
          [] command = "U"  -> IF n >= 6 \/ last = 0 THEN p
                               ELSE [p EXCEPT ![n] = CharOf(last - 1)]
          [] command = "D"  -> IF n >= 6 \/ last >= MaxItem THEN p
                               ELSE [p EXCEPT ![n] = CharOf(last + 1)]
          [] command = "E"  -> IF n >= 6 THEN SubSeq(p, 1, n - 2)
                               ELSE p \o <<"0", "0">>
          [] OTHER          -> p

\* Replies to a command the program expects to be echoed.
EchoReplies(command) ==
    IF faults < MaxFaults THEN {command, Garbled} ELSE {command}

(* ------------------------- program state ------------------------------- *)

\* log is the history of the running public call: every request written to
\* the serial line, the source line that sent it, the time it was sent at,
\* whether its reply has been read and the reply (Dropped when the caller
\* of _sendCommand discards it).  The requests of a goToSetupPosition that
\* has returned are folded into one entry, Returned(r).
\* Replies are kept as the program parses them (the number of int(...),
\* the tokens of split(" ")); replies that int() or the indexing of the
\* integration result would reject are not among the device's answers.
\* out is the set of messages printed, now the seconds slept since the
\* call began, faults the replies so far that were not the expected echo.

\* Local variables of the methods, before any of them is assigned.
\* navStart, navCount and navBase are history: the position the running
\* goToSetupPosition started from, the moves it has issued since, and the
\* length of the log when it was called.
Loc0 == [ r |-> <<>>, aValue |-> 0, aVoltage |-> 0, move |-> 0, i |-> 0,
          response |-> None, verify |-> 0, integrationTime |-> 0,
          flags |-> <<>>, ident |-> <<>>, polls |-> 0,
          navStart |-> <<>>, navCount |-> 0, navBase |-> 0 ]

\* print(f"Error sending command: {command}")
ErrSend(command) == <<"Error sending command", command>>

(* --------------------------- _sendCommand ------------------------------ *)

\* serial.query(command), first half: the request line is written.
Write(command) ==
    /\ wire = None
    /\ wire' = command
    /\ log' = Append(log, [cmd |-> command, at |-> pc, t |-> now,
                          got |-> FALSE, reply |-> None])
    /\ UNCHANGED <<pc, stack, op, loc, err, out, serialOpen, now, pos, faults>>

\* An exception leaves every active method; a failed constructor leaves no
\* session behind.
Raise(e) ==
    /\ pc' = IF op.name = "__init__" THEN "failed" ELSE "done"
    /\ stack' = <<>>
    /\ err' = e
    /\ wire' = None

\* serial.query(command), second half, when no line arrives within the
\* timeout: pyvisa raises and _sendCommand does not catch.
Timeout(command) ==
    /\ wire = command
    /\ Raise("VisaIOError")
    /\ UNCHANGED <<op, loc, out, log, serialOpen, now, pos, faults>>

\* In the log, a reply that was read and not kept by the caller.
Dropped == "~"

\* The log once the reply to the last request has been read.
Replied(response) ==
    [log EXCEPT ![Len(log)].got = TRUE, ![Len(log)].reply = response]

\* What _sendCommand prints for a response.
Printed(command, crossCheck, response) ==
    IF crossCheck /\ response # command THEN {ErrSend(command)} ELSE {}

\* Mutation of Echo: a command that is not echoed is sent again.
EchoRetry(command, next, newLoc) ==
    \/ Write(command)
    \/ /\ wire = command
       /\ \E response \in EchoReplies(command) :
            /\ out' = out \cup Printed(command, TRUE, response)
            /\ faults' = IF response # command THEN faults + 1 ELSE faults
            /\ pc' = IF response # command THEN pc ELSE next
            /\ loc' = IF response # command THEN loc ELSE newLoc
       /\ log' = Replied(Dropped)
       /\ wire' = None
       /\ pos' = DeviceMove(command, pos)
       /\ UNCHANGED <<stack, op, err, serialOpen, now>>
    \/ Timeout(command)

\* self._sendCommand(command): crossCheck = True, the response is dropped.
\* newLoc is loc once the statement holding the call has completed.
Echo(command, next, newLoc) ==
    \/ Write(command)
    \/ /\ wire = command
       /\ \E response \in EchoReplies(command) :
            /\ out' = out \cup Printed(command, TRUE, response)
            /\ faults' = IF response # command THEN faults + 1 ELSE faults
       /\ log' = Replied(Dropped)
       /\ wire' = None
       /\ pos' = DeviceMove(command, pos)
       /\ pc' = next
       /\ loc' = newLoc
       /\ UNCHANGED <<stack, op, err, serialOpen, now>>
    \/ Timeout(command)

\* x = self._sendCommand(command, False): the response is data, one of the
\* domain of nextPc and newLoc; newLoc[response] is loc after the statement
\* and nextPc[response] the line the statement continues at.
Query(command, nextPc, newLoc) ==
    \/ Write(command)
    \/ /\ wire = command
       /\ \E response \in DOMAIN nextPc :
            /\ loc' = newLoc[response]
            /\ pc' = nextPc[response]
            /\ log' = Replied(response)
       /\ wire' = None
       /\ pos' = DeviceMove(command, pos)
       /\ UNCHANGED <<stack, op, err, out, serialOpen, now, faults>>
    \/ Timeout(command)

\* Mutation of Discard: the command is written and its reply never read.
DiscardUnread(command, next) ==
    /\ wire = None
    /\ log' = Append(log, [cmd |-> command, at |-> pc, t |-> now,
                          got |-> FALSE, reply |-> None])
    /\ pos' = DeviceMove(command, pos)
    /\ pc' = next
    /\ UNCHANGED <<stack, op, loc, err, out, wire, serialOpen, now, faults>>

\* self._sendCommand(command, False) with the response dropped.
Discard(command, next) ==
    \/ Write(command)
    \/ /\ wire = command
       /\ log' = Replied(Dropped)
       /\ wire' = None
       /\ pos' = DeviceMove(command, pos)
       /\ pc' = next
       /\ UNCHANGED <<stack, op, loc, err, out, serialOpen, now, faults>>
    \/ Timeout(command)

(* --------------------------- calls and returns ------------------------- *)

\* The public method has returned or raised: its locals are gone and the
\* user of the session has control again ("done" keeps the finished call
\* for inspection, "idle" is the session between two calls).
Idle ==
    /\ pc = "done"
    /\ pc' = "idle"
    /\ op' = [name |-> "-", arg |-> 0]
    /\ stack' = <<>>
    /\ loc' = Loc0
    /\ err' = "none"
    /\ out' = {}
    /\ log' = <<>>
    /\ now' = 0
    /\ faults' = 0
    /\ UNCHANGED <<wire, serialOpen, pos>>

\* A public method is called on an idle, open session.
Begin(name, arg, label) ==
    /\ pc = "idle"
    /\ serialOpen
    /\ pc' = label
    /\ op' = [name |-> name, arg |-> arg]
    /\ UNCHANGED <<stack, loc, err, out, log, wire, serialOpen, now, pos, faults>>

\* self.method(): continue at the method's first line, come back to ret.
Call(label, ret) ==
    /\ pc' = label
    /\ stack' = <<ret>> \o stack

\* End of a method: back to the caller, or to the user of the session.
Return ==
    IF stack = <<>>
    THEN pc' = "done" /\ stack' = stack
    ELSE pc' = Head(stack) /\ stack' = Tail(stack)

(* --------------------------- getPosition ------------------------------- *)

getPosition ==
    \/ Begin("getPosition", 0, "L144")
    \/ /\ pc = "L144"
       /\ Query("?W",
                [response \in {pos} |->
                    "done"],
                [response \in {pos} |->
                    [loc EXCEPT !.r = response]])

(* --------------------------- goToSetupPosition ------------------------- *)

\* Mutation of NavCommand: "D" where the code sends "U".
NavCommandDown(r) ==
    IF Len(r) > 2 THEN "C"
    ELSE IF r[1] # "0" THEN "M0"
    ELSE IF r[2] # "0" THEN "D"
    ELSE ""

\* Mutation of NavCommand: the mode digit is tested before the length.
NavCommandModeFirst(r) ==
    IF r[1] # "0" THEN "M0"
    ELSE IF Len(r) > 2 THEN "C"
    ELSE IF r[2] # "0" THEN "U"
    ELSE ""

\* The command of one iteration of the loop, "" when no branch is taken.
NavCommand(r) ==
    IF Len(r) > 2 THEN "C"
    ELSE IF r[1] # "0" THEN "M0"
    ELSE IF r[2] # "0" THEN "U"
    ELSE ""

\* The log entry for a goToSetupPosition that has returned with position r.
Returned(r) ==
    [cmd |-> "goToSetupPosition", at |-> "L171", t |-> now,
     got |-> TRUE, reply |-> r]

goToSetupPosition ==
    \/ Begin("goToSetupPosition", 0, "L169")
    \/ /\ pc = "L169"
       /\ Query("?W",
                [response \in {pos} |->
                    "L171"],
                [response \in {pos} |->
                    [loc EXCEPT !.r = response, !.navStart = response, !.navCount = 0, !.navBase = Len(log) - 1]])
    \/ /\ pc = "L171"
       /\ IF loc.r # Root
          THEN /\ pc' = (IF NavCommand(loc.r) = "" THEN "L177" ELSE "L173")
               /\ UNCHANGED <<stack, loc, log>>
          ELSE /\ Return
               /\ log' = Append(SubSeq(log, 1, loc.navBase), Returned(loc.r))
               /\ loc' = [loc EXCEPT !.navStart = <<>>, !.navCount = 0,
                                     !.navBase = 0]
       /\ UNCHANGED <<op, err, out, wire, serialOpen, now, pos, faults>>
    \/ /\ pc = "L173"
       /\ Echo(NavCommand(loc.r), "L177",
               [loc EXCEPT !.navCount = loc.navCount + 1])
    \/ /\ pc = "L177"
       /\ Query("?W",
                [response \in {pos} |->
                    "L171"],
                [response \in {pos} |->
                    [loc EXCEPT !.r = response]])

(* --------------------------- getFlags ---------------------------------- *)

\* Largest number the device answers to "?F".
MaxFlag == 260

\* Numbers the device answers to "?F".  A caller inside the class reads one
\* character of the result only, so there a few replies stand for all.
FlagReplies ==
    IF op.name = "getFlags" THEN 0..MaxFlag ELSE {0, 4, 251, 260}

RECURSIVE Bin(_)
\* The binary digits of n >= 0, most significant first.
Bin(n) == IF n < 2 THEN <<CharOf(n)>> ELSE Append(Bin(n \div 2), CharOf(n % 2))

RECURSIVE ZeroPad(_, _)
\* Zeros on the left up to a minimum width; longer strings are kept whole.
ZeroPad(s, width) == IF Len(s) >= width THEN s ELSE ZeroPad(<<"0">> \o s, width)

\* Mutation of Format08b: a width of 7.
Format07b(response) == ZeroPad(Bin(response), 7)

\* f'{response:08b}'
Format08b(response) == ZeroPad(Bin(response), 8)

\* Mutation of RadiologicalBit: the fourth character from the right.
RadiologicalBitFourth(flags) == flags[Len(flags) - 3] = "1"

\* flags[-3] == "1"
RadiologicalBit(flags) == flags[Len(flags) - 2] = "1"

getFlags ==
    \/ Begin("getFlags", 0, "L111")
    \/ /\ pc = "L111"
       /\ Query("?F",
                [response \in FlagReplies |->
                    "L112"],
                [response \in FlagReplies |->
                    [loc EXCEPT !.flags = Format08b(response)]])
    \/ /\ pc = "L112"
       /\ Return
       /\ UNCHANGED <<op, loc, err, out, log, wire, serialOpen, now, pos, faults>>

(* --------------------------- setElectricalUnits ------------------------ *)

ErrUnits == <<"Electrical units not set correctly">>

setElectricalUnits ==
    \/ Begin("setElectricalUnits", 0, "L118")
    \/ /\ pc \in {"L118", "L121", "L131", "L134"}
       /\ CASE pc = "L118" -> Call("L111", "L118b")
            [] pc = "L121" -> Call("L169", "L123")
            [] pc = "L131" -> Call("L111", "L131b")
            [] pc = "L134" -> Call("L169", "L135")
       /\ UNCHANGED <<op, loc, err, out, log, wire, serialOpen, now, pos, faults>>
    \/ /\ pc = "L118b"
       /\ IF RadiologicalBit(loc.flags)
          THEN pc' = "L121" /\ stack' = stack
          ELSE Return
       /\ loc' = [loc EXCEPT !.flags = <<>>]
       /\ UNCHANGED <<op, err, out, log, wire, serialOpen, now, pos, faults>>
    \/ /\ pc = "L123" /\ Echo("E", "L125", loc)
    \/ /\ pc = "L125" /\ Echo("D", "L127", loc)
    \/ /\ pc = "L127" /\ Echo("E", "L128", loc)
    \/ /\ pc = "L128" /\ Echo("U", "L129", loc)
    \/ /\ pc = "L129" /\ Echo("E", "L131", loc)
    \/ /\ pc = "L131b"
       /\ out' = IF RadiologicalBit(loc.flags) THEN out \cup {ErrUnits} ELSE out
       /\ pc' = "L134"
       /\ loc' = [loc EXCEPT !.flags = <<>>]
       /\ UNCHANGED <<stack, op, err, log, wire, serialOpen, now, pos, faults>>
    \/ /\ pc = "L135"
       /\ Return
       /\ UNCHANGED <<op, loc, err, out, log, wire, serialOpen, now, pos, faults>>

(* --------------------------- __init__ ---------------------------------- *)

\* Replies to "PTW", split at the spaces.
IdentReplies == { <<"UNIDOS", "1.20">>, <<"UNIDOS">>, <<"TANDEM", "2.0">> }

ErrNotUnidos == <<"This is not an UNIDOS electrometer">>

\* Mutation of AfterIdent: an unrecognised device ends the construction.
AfterIdentStrict(response) ==
    IF response[1] = "UNIDOS" THEN "L86" ELSE "failed"

\* if ....split(" ")[0] == "UNIDOS": ... else: print(...)
AfterIdent(response) ==
    IF response[1] = "UNIDOS" THEN "L86" ELSE "L91"

Construct ==
    \/ /\ pc = "L84"
       /\ Query("PTW",
                [response \in IdentReplies |->
                    AfterIdent(response)],
                [response \in IdentReplies |->
                    [loc EXCEPT !.ident = response]])
    \/ /\ pc = "L86"
       /\ Query("PTW",
                [response \in IdentReplies |->
                    "L86b"],
                [response \in IdentReplies |->
                    [loc EXCEPT !.ident = response]])
    \/ /\ pc = "L86b"
       /\ IF Len(loc.ident) < 2
          THEN Raise("IndexError")
          ELSE pc' = "L87" /\ UNCHANGED <<stack, err, wire>>
       /\ UNCHANGED <<op, loc, out, log, serialOpen, now, pos, faults>>
    \/ /\ pc = "L87"
       /\ Query("SER",
                [response \in {"12345"} |->
                    "L95"],
                [response \in {"12345"} |->
                    [loc EXCEPT !.response = response]])
    \/ /\ pc = "L91"
       /\ out' = out \cup {ErrNotUnidos}
       /\ pc' = "L95"
       /\ UNCHANGED <<stack, op, loc, err, log, wire, serialOpen, now, pos, faults>>
    \/ /\ pc = "L95"
       /\ Call("L118", "L96")
       /\ UNCHANGED <<op, loc, err, out, log, wire, serialOpen, now, pos, faults>>
    \/ /\ pc = "L96"
       /\ Return
       /\ UNCHANGED <<op, loc, err, out, log, wire, serialOpen, now, pos, faults>>

(* --------------------------- setRange ---------------------------------- *)

RangeArgs == {"Low", "Medium", "High", "low", "medium", "high", "Purple"}

\* assert range in ["Low", "Medium", "High"]
ValidRange(range) == range \in {"Low", "Medium", "High"}

\* Mutation of RangeSelector: the selectors of Medium and High exchanged.
RangeSelectorSwapped(range) ==
    IF range = "High" \/ range = "high" THEN 1
    ELSE IF range = "Medium" \/ range = "medium" THEN 2
    ELSE IF range = "Low" \/ range = "low" THEN 0
    ELSE -1

\* The three ifs that bind x; -1 stands for x left unbound.
RangeSelector(range) ==
    IF range = "High" \/ range = "high" THEN 2
    ELSE IF range = "Medium" \/ range = "medium" THEN 1
    ELSE IF range = "Low" \/ range = "low" THEN 0
    ELSE -1

\* f"R{x}"
RangeCommand(x) == "R" \o ToString(x)

setRange ==
    \/ \E range \in RangeArgs : Begin("setRange", range, "L195")
    \/ /\ pc = "L195"
       /\ IF ValidRange(op.arg)
          THEN pc' = "L203" /\ UNCHANGED <<stack, err, wire>>
          ELSE Raise("AssertionError")
       /\ UNCHANGED <<op, loc, out, log, serialOpen, now, pos, faults>>
    \/ /\ pc = "L203"
       /\ Echo(RangeCommand(RangeSelector(op.arg)), "done", loc)

(* --------------------------- getVoltage -------------------------------- *)

\* self.__listOfVoltages
listOfVoltages == <<0, 50, 100, 150, 200, 250, 300, 350, 400>>

Voltages == { listOfVoltages[k] : k \in 1..Len(listOfVoltages) }

\* The leading number of the device's answer to "V" in the voltage field.
VoltReplies == Voltages \cup {25}

\* Mutation of GoToSetupArg: a call without the argument does not return
\* to the setup position.
GoToSetupArgOmitted ==
    IF op.name \in {"getVoltage", "getIntegrationTime"} THEN op.arg
    ELSE FALSE

\* The goToSetup argument of the running getVoltage / getIntegrationTime:
\* the user's, False from setVoltage, the default from integrate.
GoToSetupArg ==
    IF op.name \in {"getVoltage", "getIntegrationTime"} THEN op.arg
    ELSE op.name # "setVoltage"

getVoltage ==
    \/ \E goToSetup \in BOOLEAN : Begin("getVoltage", goToSetup, "L243")
    \/ /\ pc \in {"L243", "L256", "L258"}
       /\ CASE pc = "L243" -> Call("L169", "L245")
            [] pc = "L256" -> IF GoToSetupArg THEN Call("L169", "L258")
                              ELSE pc' = "L258" /\ stack' = stack
            [] pc = "L258" -> Return
       /\ UNCHANGED <<op, loc, err, out, log, wire, serialOpen, now, pos, faults>>
    \/ /\ pc = "L245" /\ Echo("D", "L247", loc)
    \/ /\ pc = "L247" /\ Echo("E", "L249", loc)
    \/ /\ pc = "L249" /\ Echo("D", "L251", loc)
    \/ /\ pc = "L251" /\ Echo("E", "L253", loc)
    \/ /\ pc = "L253"
       /\ Query("V",
                [response \in VoltReplies |->
                    "L256"],
                [response \in VoltReplies |->
                    [loc EXCEPT !.aValue = response]])

(* --------------------------- setVoltage -------------------------------- *)

VoltageArgs == Voltages \cup {25, 450}

\* assert voltage in self.listOfVoltages
ValidVoltage(voltage) == \E k \in 1..Len(listOfVoltages) : listOfVoltages[k] = voltage

\* self.listOfVoltages.index(v), counted from 0.
IndexOf(v) ==
    (CHOOSE k \in 1..Len(listOfVoltages) :
        /\ listOfVoltages[k] = v
        /\ \A j \in 1..(k - 1) : listOfVoltages[j] # v) - 1

\* Mutation of Move: the two indices exchanged.
MoveSwapped(voltage, aVoltage) == IndexOf(aVoltage) - IndexOf(voltage)

\* move = newVoltageIndex - currentVoltageIndex
Move(voltage, aVoltage) == IndexOf(voltage) - IndexOf(aVoltage)

\* Mutation of VoltageSet: the verifying read is not compared.
VoltageSetAlways(voltage, verify) == TRUE

\* voltage != int(response.split()[0]) is false: the new value is set.
VoltageSet(voltage, verify) == voltage = verify

\* The leading number of the answer to the verifying "V": the code only
\* compares it with the requested voltage, so the requested voltage, the
\* voltage before the steps and a value outside the list stand for all.
VerifyReplies == {op.arg, loc.aVoltage, 25}

ErrVoltage == <<"Error setting the requested voltage, operation aborted.">>

\* Mutation of NotInList: a voltage that is not in the list is reported
\* like a failed verification and the cursor taken back to the root.
NotInListReported ==
    /\ pc' = "L296"
    /\ loc' = [loc EXCEPT !.aVoltage = loc.aValue, !.aValue = 0]
    /\ UNCHANGED <<stack, err, wire>>

\* self.listOfVoltages.index(aVoltage) of a value that is not in the list.
NotInList ==
    /\ Raise("ValueError")
    /\ loc' = [loc EXCEPT !.aVoltage = loc.aValue, !.aValue = 0]

\* Mutation of StartNeeded: the start key is pressed after a plain enter.
StartNeededInverted(response) == response = "E"

\* if response != "E": self._sendCommand("G", False)
StartNeeded(response) == response # "E"

setVoltage ==
    \/ \E voltage \in VoltageArgs : Begin("setVoltage", voltage, "L274")
    \/ /\ pc = "L274"
       /\ IF ValidVoltage(op.arg)
          THEN pc' = "L278" /\ UNCHANGED <<stack, err, wire>>
          ELSE Raise("AssertionError")
       /\ UNCHANGED <<op, loc, out, log, serialOpen, now, pos, faults>>
    \/ /\ pc \in {"L278", "L296", "L297"}
       /\ CASE pc = "L278" -> Call("L243", "L280")
            [] pc = "L296" -> Call("L169", "L297")
            [] pc = "L297" -> Return
       /\ UNCHANGED <<op, loc, err, out, log, wire, serialOpen, now, pos, faults>>
    \/ /\ pc = "L280"
       /\ IF ValidVoltage(loc.aValue)
          THEN LET move == Move(op.arg, loc.aValue)
               IN  /\ loc' = [loc EXCEPT !.aVoltage = loc.aValue, !.aValue = 0,
                                         !.move = move, !.i = 0]
                   /\ pc' = IF move > 0 THEN "L284"
                            ELSE IF move < 0 THEN "L285" ELSE "L288"
                   /\ UNCHANGED <<stack, err, wire>>
          ELSE NotInList
       /\ UNCHANGED <<op, out, log, serialOpen, now, pos, faults>>
    \/ /\ pc = "L284"
       /\ Echo("U", IF loc.i + 1 < loc.move THEN "L284" ELSE "L288",
               [loc EXCEPT !.i = loc.i + 1])
    \/ /\ pc = "L285"
       /\ Echo("D", IF loc.i + 1 < -loc.move THEN "L285" ELSE "L288",
               [loc EXCEPT !.i = loc.i + 1])
    \/ /\ pc = "L288"
       /\ Query("V",
                [response \in VerifyReplies |->
                    "L289"],
                [response \in VerifyReplies |->
                    [loc EXCEPT !.verify = response]])
    \/ /\ pc = "L289"
       /\ IF VoltageSet(op.arg, loc.verify)
          THEN pc' = "L292" /\ out' = out
          ELSE pc' = "L296" /\ out' = out \cup {ErrVoltage}
       /\ UNCHANGED <<stack, op, loc, err, log, wire, serialOpen, now, pos, faults>>
    \/ /\ pc = "L292"
       /\ Query("E",
                [response \in {"E", Garbled} |->
                    IF StartNeeded(response) THEN "L294" ELSE "L296"],
                [response \in {"E", Garbled} |->
                    [loc EXCEPT !.response = response]])
    \/ /\ pc = "L294"
       /\ Discard("G", "L296")

(* --------------------------- getIntegrationTime ------------------------ *)

\* The device's answer to "V" in the integration-time field, as a number.
TimeReplies == {6, 30}

getIntegrationTime ==
    \/ \E goToSetup \in BOOLEAN : Begin("getIntegrationTime", goToSetup, "L324")
    \/ /\ pc \in {"L324", "L332", "L334"}
       /\ CASE pc = "L324" -> Call("L169", "L326")
            [] pc = "L332" -> IF GoToSetupArg THEN Call("L169", "L334")
                              ELSE pc' = "L334" /\ stack' = stack
            [] pc = "L334" -> Return
       /\ UNCHANGED <<op, loc, err, out, log, wire, serialOpen, now, pos, faults>>
    \/ /\ pc = "L326" /\ Echo("E", "L328", loc)
    \/ /\ pc = "L328" /\ Echo("E", "L330", loc)
    \/ /\ pc = "L330"
       /\ Query("V",
                [response \in TimeReplies |->
                    "L332"],
                [response \in TimeReplies |->
                    [loc EXCEPT !.aValue = response]])

(* --------------------------- setIntegrationTime ------------------------ *)

\* Arguments: the Python type of the value and the value.
TimeArgs ==
    [type : {"int"}, val : {5, 6, 30, 9999, 10000}]
        \cup {[type |-> "float", val |-> 30], [type |-> "bool", val |-> 1]}

\* Mutation of ValidIntegrationTime: the type is not looked at.
ValidIntegrationTimeAnyType(t) == t.val >= 6 /\ t.val <= 9999

\* assert type(t) is int and t >= 6 and t <= 9999
ValidIntegrationTime(t) == t.type = "int" /\ t.val >= 6 /\ t.val <= 9999

RECURSIVE zfill(_, _)
\* str.zfill(width)
zfill(str, width) == IF Len(str) >= width THEN str ELSE zfill("0" \o str, width)

\* Mutation of TimeCommand: the digits are sent without padding.
TimeCommandUnpadded(t) == ToString(t.val)

\* f"{integrationTime}".zfill(4)
TimeCommand(t) == zfill(ToString(t.val), 4)

ErrTime == <<"Error setting the integration time, operation aborted.">>

setIntegrationTime ==
    \/ \E t \in TimeArgs : Begin("setIntegrationTime", t, "L351")
    \/ /\ pc = "L351"
       /\ IF ValidIntegrationTime(op.arg)
          THEN pc' = "L355" /\ UNCHANGED <<stack, err, wire>>
          ELSE Raise("AssertionError")
       /\ UNCHANGED <<op, loc, out, log, serialOpen, now, pos, faults>>
    \/ /\ pc = "L355"
       /\ Call("L169", "L357")
       /\ UNCHANGED <<op, loc, err, out, log, wire, serialOpen, now, pos, faults>>
    \/ /\ pc = "L357" /\ Echo("E", "L359", loc)
    \/ /\ pc = "L359" /\ Echo("E", "L361", loc)
    \/ /\ pc = "L361" /\ Echo(TimeCommand(op.arg), "L363", loc)
    \/ /\ pc = "L363" /\ Echo("E", "L365", loc)
    \/ /\ pc = "L365"
       /\ Query("V",
                [response \in TimeReplies \cup {op.arg.val} |->
                    "L366"],
                [response \in TimeReplies \cup {op.arg.val} |->
                    [loc EXCEPT !.verify = response]])
    \/ /\ pc = "L366"
       /\ out' = IF op.arg.val # loc.verify THEN out \cup {ErrTime} ELSE out
       /\ pc' = "done"
       /\ UNCHANGED <<stack, op, loc, err, log, wire, serialOpen, now, pos, faults>>

(* --------------------------- getStatus, doNull ------------------------ *)

\* Answers to "?S" while the device is busy with `busy`: it may stay busy
\* for MaxPolls polls.
StatusReplies(busy) == IF loc.polls < MaxPolls THEN {busy, "RES"} ELSE {"RES"}

getStatus ==
    \/ Begin("getStatus", 0, "L155")
    \/ /\ pc = "L155"
       /\ Query("?S",
                [response \in {"RES", "INT", "NUL"} |->
                    "done"],
                [response \in {"RES", "INT", "NUL"} |->
                    [loc EXCEPT !.response = response]])

\* time.sleep(seconds)
Sleep(seconds, next) ==
    /\ now' = now + seconds
    /\ pc' = next
    /\ UNCHANGED <<stack, op, loc, err, out, log, wire, serialOpen, pos, faults>>

doNull ==
    \/ Begin("doNull", 0, "L160")
    \/ /\ pc = "L160"
       /\ Discard("N", "L161")
    \/ /\ pc = "L161" /\ Sleep(75, "L163")
    \/ /\ pc = "L163"
       /\ Query("?S",
                [response \in StatusReplies("NUL") |->
                    IF response = "NUL" THEN "L164" ELSE "done"],
                [response \in StatusReplies("NUL") |->
                    [loc EXCEPT !.polls = loc.polls + 1]])
    \/ /\ pc = "L164" /\ Sleep(5, "L163")

(* --------------------------- integrate --------------------------------- *)

\* self.getPosition()[0] != "00": one character against the root code.
NotAtSetup(r) == r[1] # "00"

\* Mutation of SleepAfterStart: no margin of one second.
SleepNoMargin(integrationTime) == integrationTime

\* time.sleep(integrationTime + 1)
SleepAfterStart(integrationTime) == integrationTime + 1

ErrMissmatch == <<"Integration time missmatch">>

integrate ==
    \/ Begin("integrate", 0, "L377")
    \/ /\ pc = "L377"
       /\ Query("?W",
                [response \in {pos} |->
                    IF NotAtSetup(response) THEN "L378" ELSE "L381"],
                [response \in {pos} |->
                    [loc EXCEPT !.r = response]])
    \/ /\ pc \in {"L378", "L381"}
       /\ CASE pc = "L378" -> Call("L169", "L381")
            [] pc = "L381" -> Call("L324", "L384")
       /\ UNCHANGED <<op, loc, err, out, log, wire, serialOpen, now, pos, faults>>
    \/ /\ pc = "L384"
       /\ loc' = [loc EXCEPT !.integrationTime = loc.aValue, !.aValue = 0]
       /\ pc' = "L385"
       /\ UNCHANGED <<stack, op, err, out, log, wire, serialOpen, now, pos, faults>>
    \/ /\ pc = "L385" /\ Echo("I", "L387", loc)
    \/ /\ pc = "L387" /\ Sleep(SleepAfterStart(loc.integrationTime), "L389")
    \/ /\ pc = "L389"
       /\ Query("?S",
                [response \in StatusReplies("INT") |->
                    IF response = "INT" THEN "L389s" ELSE "L391"],
                [response \in StatusReplies("INT") |->
                    [loc EXCEPT !.polls = loc.polls + 1]])
    \/ /\ pc = "L389s" /\ Sleep(1, "L389")
    \/ /\ pc = "L391"
       \* serial.write('V') and serial.read_raw(): the elapsed time of the
       \* answer is kept in verify, the charge is not modelled.
       /\ Query("V",
                [response \in TimeReplies |->
                    "L396"],
                [response \in TimeReplies |->
                    [loc EXCEPT !.verify = response]])
    \/ /\ pc = "L396"
       /\ out' = IF loc.verify # loc.integrationTime
                 THEN out \cup {ErrMissmatch} ELSE out
       /\ pc' = "done"
       /\ UNCHANGED <<stack, op, loc, err, log, wire, serialOpen, now, pos, faults>>

(* --------------------------- simple queries ---------------------------- *)

\* Answers to "?R", split at the spaces.
RangeReplies == { <<"", "Low", "2.2", "n">>, <<"High">> }

getRange ==
    \/ Begin("getRange", 0, "L217")
    \/ /\ pc = "L217"
       /\ Query("?R",
                [response \in RangeReplies |->
                    "L226"],
                [response \in RangeReplies |->
                    [loc EXCEPT !.ident = response]])
    \/ /\ pc = "L226"
       /\ IF Len(loc.ident) < 4
          THEN Raise("IndexError")
          ELSE pc' = "done" /\ UNCHANGED <<stack, err, wire>>
       /\ UNCHANGED <<op, loc, out, log, serialOpen, now, pos, faults>>

getUnit ==
    \/ Begin("getUnit", 0, "L307")
    \/ /\ pc = "L307"
       /\ Query("?U",
                [response \in {"C", "Gy"} |->
                    "done"],
                [response \in {"C", "Gy"} |->
                    [loc EXCEPT !.response = response]])

getCorrections ==
    \/ Begin("getCorrections", 0, "L433")
    \/ /\ pc = "L433"
       /\ Query("?C",
                [response \in {"1.000"} |->
                    "done"],
                [response \in {"1.000"} |->
                    [loc EXCEPT !.response = response]])

getReading ==
    \/ Begin("getReading", 0, "L444")
    \/ /\ pc = "L444"
       /\ Query("V",
                [response \in TimeReplies |->
                    "done"],
                [response \in TimeReplies |->
                    [loc EXCEPT !.aValue = response]])

(* --------------------------- close ------------------------------------- *)

close ==
    \/ Begin("close", 0, "L449")
    \/ /\ pc = "L449" /\ Echo("T1", "L450", loc)
    \/ /\ pc = "L450"
       /\ serialOpen' = FALSE
       /\ pc' = "done"
       /\ UNCHANGED <<stack, op, loc, err, out, log, wire, now, pos, faults>>

(* --------------------------- specification ----------------------------- *)

\* The transport is open and configured, the list of voltages is set, and
\* the constructor is about to identify the instrument (line 84).
Init ==
    /\ pc = "L84"
    /\ stack = <<>>
    /\ op = [name |-> "__init__", arg |-> 0]
    /\ loc = Loc0
    /\ err = "none"
    /\ out = {}
    /\ log = <<>>
    /\ wire = None
    /\ serialOpen = TRUE
    /\ now = 0
    /\ pos \in PositionCodes
    /\ faults = 0

Next ==
    \/ Idle
    \/ Construct
    \/ getFlags
    \/ setElectricalUnits
    \/ getPosition
    \/ goToSetupPosition
    \/ setRange
    \/ getVoltage
    \/ setVoltage
    \/ getIntegrationTime
    \/ setIntegrationTime
    \/ getStatus
    \/ doNull
    \/ integrate
    \/ getRange
    \/ getUnit
    \/ getCorrections
    \/ getReading
    \/ close

Spec == Init /\ [][Next]_vars

(* ------------------------------ claims --------------------------------- *)

Abs(n) == IF n < 0 THEN -n ELSE n

Min(S) == CHOOSE x \in S : \A y \in S : x <= y

\* The places in the log of the requests for the value on the screen.
VReads == { k \in DOMAIN log : log[k].cmd = "V" }

\* The allowed voltages and the index of one in [0, 50, ..., 400].
AllowedVoltages == {0, 50, 100, 150, 200, 250, 300, 350, 400}

AllowedIndex(v) == v \div 50

\* C1: in setVoltage, when the device reports the allowed voltage v1 and the
\* target is v2, the commands sent between the first "V" and the verifying
\* "V" are exactly |index(v2) - index(v1)| steps, all "U" when the index
\* grows, all "D" when it shrinks, none when v1 = v2.
C1_StepsBetweenReads ==
    (op.name = "setVoltage" /\ Cardinality(VReads) >= 2) =>
        LET first  == Min(VReads)
            second == Min(VReads \ {first})
            v1     == log[first].reply
            d      == AllowedIndex(op.arg) - AllowedIndex(v1)
        IN  v1 \in AllowedVoltages =>
              /\ second - first - 1 = Abs(d)
              /\ \A k \in (first + 1)..(second - 1) :
                    log[k].cmd = IF d > 0 THEN "U" ELSE "D"

\* From 100 V to 300 V: four "U" between the two reads.
C1_Witness ==
    /\ op.name = "setVoltage"
    /\ Cardinality(VReads) >= 2
    /\ op.arg = 300
    /\ log[Min(VReads)].reply = 100
    /\ Min(VReads \ {Min(VReads)}) - Min(VReads) = 5
    /\ log[Min(VReads) + 1].cmd = "U"

\* The running call has an argument outside the declared domain.
InvalidArgument ==
    \/ op.name = "setVoltage" /\ op.arg \notin AllowedVoltages
    \/ op.name = "setRange" /\ op.arg \notin {"Low", "Medium", "High"}
    \/ /\ op.name = "setIntegrationTime"
       /\ ~(op.arg.type = "int" /\ op.arg.val >= 6 /\ op.arg.val <= 9999)

\* C2: setVoltage, setRange and setIntegrationTime called with an argument
\* outside the domain end with an assertion error and never send a command,
\* not even a position query.
C2_InvalidInputRejected ==
    InvalidArgument =>
        /\ log = <<>>
        /\ wire = None
        /\ pc \in {"L274", "L195", "L351", "done"}
        /\ pc = "done" => err = "AssertionError"

C2_Witness ==
    /\ pc = "done"
    /\ op.name = "setIntegrationTime"
    /\ op.arg.type = "float"
    /\ err = "AssertionError"

\* Levels between a position code and the root: nested menu levels, the
\* mode digit and the top-level index.
Measure(p) ==
    (Len(p) - 2) \div 2 + (IF p[1] # "0" THEN 1 ELSE 0) + DigitOf(p[2])

\* C3: against the simulated device, every command root-seeking issues
\* brings the reported position one level closer to "00", so it issues
\* exactly as many commands as the start position has levels and returns
\* with the device at "00".
C3_RootSeekingTerminates ==
    /\ pc = "L171" =>
          /\ Measure(loc.r) + loc.navCount = Measure(loc.navStart)
          /\ loc.r # Root => NavCommand(loc.r) # ""
    /\ (op.name = "goToSetupPosition" /\ pc = "done" /\ err = "none") =>
          /\ pos = Root
          /\ log = <<Returned(Root)>>

\* The loop is about to end after four moves.
C3_Witness ==
    /\ op.name = "goToSetupPosition"
    /\ pc = "L171"
    /\ loc.navStart = <<"1", "1", "0", "1", "0", "0">>
    /\ loc.navCount = 4
    /\ loc.r = Root
    /\ pos = Root

\* C4: in integrate, every status poll is sent at least T + 1 seconds after
\* "I" (T the integration time read before); a poll follows a poll only
\* after the answer "INT" and a wait of one second, and an "INT" answer is
\* followed by another poll; the result is fetched with "V" only right after
\* a poll that was answered with another status.
C4_IntegrationTiming ==
    op.name = "integrate" =>
        \A k \in DOMAIN log :
            /\ log[k].cmd = "?S" =>
                  /\ \E i \in 1..(k - 1) :
                        /\ log[i].cmd = "I"
                        /\ log[k].t >= log[i].t + loc.integrationTime + 1
                  /\ log[k - 1].cmd = "?S" =>
                        /\ log[k - 1].reply = "INT"
                        /\ log[k].t = log[k - 1].t + 1
                  /\ (log[k].got /\ log[k].reply = "INT" /\ k < Len(log)) =>
                        log[k + 1].cmd = "?S"
            /\ (log[k].cmd = "V" /\ \E i \in 1..(k - 1) : log[i].cmd = "I") =>
                  /\ log[k - 1].cmd = "?S"
                  /\ log[k - 1].got
                  /\ log[k - 1].reply # "INT"

\* Two polls answered "INT", then the fetch.
C4_Witness ==
    /\ op.name = "integrate"
    /\ pc = "done"
    /\ err = "none"
    /\ loc.integrationTime = 30
    /\ Cardinality({ k \in DOMAIN log : log[k].cmd = "?S" }) = 3
    /\ log[Len(log)].cmd = "V"

\* The character for bit k of n in a string of binary digits s.
BitChar(n, k) == CharOf((n \div (2 ^ k)) % 2)

\* getFlags has returned flags for the answer n.
FlagsReturned ==
    /\ op.name = "getFlags"
    /\ pc = "done"
    /\ err = "none"

\* C5 as stated: for every answer n >= 0, also n >= 256, the result has
\* exactly 8 characters, the low 8 bits of n.
C5_Original ==
    FlagsReturned =>
        LET n == log[1].reply
        IN  /\ Len(loc.flags) = 8
            /\ \A k \in 0..7 : loc.flags[8 - k] = BitChar(n, k)

\* C5 amended: for n < 256 the result is the 8 binary digits of n; for
\* n >= 256 it is the whole binary representation of n, longer than 8.
C5_FlagsFormat ==
    FlagsReturned =>
        LET n == log[1].reply
            w == Len(loc.flags)
        IN  /\ \A k \in 0..(w - 1) : loc.flags[w - k] = BitChar(n, k)
            /\ n < 2 ^ w
            /\ n < 256 => w = 8
            /\ n >= 256 => w > 8 /\ loc.flags[1] = "1"

C5_Witness ==
    /\ FlagsReturned
    /\ log[1].reply = 5
    /\ loc.flags = <<"0", "0", "0", "0", "0", "1", "0", "1">>

\* The requests root-seeking sent as moves.
NavMoves == { k \in DOMAIN log : log[k].at = "L173" }

\* A position query in the log answered with the root code.
RootReported(k) ==
    /\ log[k].cmd = "?W"
    /\ log[k].got
    /\ log[k].reply = Root

\* Every move follows a position report, and no move follows a report "00".
MovesFollowReports ==
    /\ \A k \in NavMoves : k > 1 /\ log[k - 1].cmd = "?W" /\ log[k - 1].got
    /\ \A k \in DOMAIN log :
          (RootReported(k) /\ k < Len(log)) => (k + 1) \notin NavMoves

\* C6 as stated: the move is "C" for a code longer than 2, "M0" for a
\* nonzero first digit, "D" for a zero first and nonzero second digit.
C6_Original ==
    /\ MovesFollowReports
    /\ \A k \in NavMoves :
          LET r == log[k - 1].reply
          IN  log[k].cmd = IF Len(r) > 2 THEN "C"
                           ELSE IF r[1] # "0" THEN "M0" ELSE "D"

\* C6 amended: as stated, but the move for a zero first and nonzero second
\* digit is "U".
C6_MoveByShape ==
    /\ MovesFollowReports
    /\ \A k \in NavMoves :
          LET r == log[k - 1].reply
          IN  log[k].cmd = IF Len(r) > 2 THEN "C"
                           ELSE IF r[1] # "0" THEN "M0" ELSE "U"

\* All three shapes in one run of root-seeking.
C6_Witness ==
    /\ pc = "L171"
    /\ loc.r = Root
    /\ \E a, b, c \in NavMoves :
          log[a].cmd = "C" /\ log[b].cmd = "M0" /\ log[c].cmd = "U"

\* C7: whenever close() has ended, the transport is released.
C7_CloseReleases ==
    (op.name = "close" /\ pc = "done") => ~serialOpen

\* C8: setRange with a lower-case name is accepted and sends the command of
\* the capitalised name.
C8_LowerCaseAccepted ==
    (op.name = "setRange" /\ pc = "done") =>
        /\ op.arg = "low" => Len(log) = 1 /\ log[1].cmd = "R0"
        /\ op.arg = "medium" => Len(log) = 1 /\ log[1].cmd = "R1"
        /\ op.arg = "high" => Len(log) = 1 /\ log[1].cmd = "R2"

\* C9: setRange with Low, Medium or High sends one command and nothing
\* else: "R0", "R1", "R2".
C9_SetRangeOneCommand ==
    (op.name = "setRange" /\ op.arg \in {"Low", "Medium", "High"}) =>
        /\ Len(log) <= 1
        /\ pc \in {"L195", "L203", "done"}
        /\ (pc = "done" \/ log # <<>>) =>
              /\ Len(log) = 1
              /\ log[1].cmd = CASE op.arg = "Low" -> "R0"
                                [] op.arg = "Medium" -> "R1"
                                [] op.arg = "High" -> "R2"

C9_Witness ==
    /\ op.name = "setRange"
    /\ op.arg = "High"
    /\ pc = "done"
    /\ err = "none"
    /\ log[1].cmd = "R2"
    /\ log[1].got

\* The verifying read of setVoltage got an answer other than the target.
VerifyMismatch ==
    /\ op.name = "setVoltage"
    /\ Cardinality(VReads) >= 2
    /\ log[Min(VReads \ {Min(VReads)})].got
    /\ log[Min(VReads \ {Min(VReads)})].reply # op.arg

\* C10: after a verifying read that differs from the target, setVoltage
\* sends nothing but root-seeking (no "E", no "G", no step of its own), and
\* when it returns the last position reported is "00".
C10_MismatchAborts ==
    VerifyMismatch =>
        LET v == Min(VReads \ {Min(VReads)})
        IN  /\ \A k \in (v + 1)..Len(log) :
                  /\ log[k].at \in {"L169", "L171", "L173", "L177"}
                  /\ log[k].cmd \notin {"E", "G"}
            /\ (pc = "done" /\ err = "none") =>
                  /\ Len(log) = v + 1
                  /\ log[v + 1] = Returned(Root)
                  /\ pos = Root

C10_Witness ==
    /\ VerifyMismatch
    /\ pc = "done"
    /\ err = "none"
    /\ ErrVoltage \in out
    /\ pos = Root
    /\ log[Len(log)] = Returned(Root)

\* The verifying read of setVoltage returned the target.
VerifyMatch ==
    /\ op.name = "setVoltage"
    /\ Cardinality(VReads) >= 2
    /\ log[Min(VReads \ {Min(VReads)})].got
    /\ log[Min(VReads \ {Min(VReads)})].reply = op.arg

\* The places in the log after place v of the requests for command c.
SentAfter(v, c) == { k \in (v + 1)..Len(log) : log[k].cmd = c }

\* C11: in setVoltage, after a verifying read that matches the target,
\* exactly one "E" is sent, right after the read; "G" is sent exactly once
\* when the reply to that "E" is not the literal "E" and not at all when it
\* is; "G" is never sent before that "E" nor after a verifying read that
\* differs from the target.
C11_EnterThenStart ==
    /\ op.name = "setVoltage" =>
          \A k \in DOMAIN log :
              log[k].cmd = "G" =>
                  /\ k > 1
                  /\ VerifyMatch
                  /\ k = Min(VReads \ {Min(VReads)}) + 2
                  /\ log[k - 1].cmd = "E"
                  /\ log[k - 1].got
                  /\ log[k - 1].reply # "E"
    /\ VerifyMatch =>
          LET v == Min(VReads \ {Min(VReads)})
          IN  /\ SentAfter(v, "E") \subseteq {v + 1}
              /\ Len(log) > v => log[v + 1].cmd = "E"
              /\ (Len(log) > v /\ log[v + 1].got /\ log[v + 1].reply = "E") =>
                    SentAfter(v, "G") = {}
              /\ (pc = "done" /\ err = "none") =>
                    /\ SentAfter(v, "E") = {v + 1}
                    /\ log[v + 1].got
                    /\ (Cardinality(SentAfter(v, "G")) = 1) <=>
                           (log[v + 1].reply # "E")
                    /\ Cardinality(SentAfter(v, "G")) <= 1

C11_Witness ==
    /\ VerifyMatch
    /\ pc = "done"
    /\ err = "none"
    /\ \E k \in DOMAIN log : log[k].cmd = "G" /\ log[k - 1].reply = Garbled

\* The running call is a navigating parameter operation with its defaults.
NavigatingDefault ==
    \/ op.name \in {"getVoltage", "getIntegrationTime"} /\ op.arg = TRUE
    \/ op.name \in {"setVoltage", "setIntegrationTime"}

\* The last exchange of the call is a position report of "00": nothing was
\* sent to the device after the cursor was last seen at the root.
EndsAtRoot ==
    /\ Len(log) > 0
    /\ log[Len(log)].cmd = "goToSetupPosition"
    /\ log[Len(log)].reply = Root

\* C12: when getVoltage, setVoltage, getIntegrationTime or setIntegrationTime,
\* called with default arguments, returns, the cursor is back at the root:
\* the last thing the device did for the call is report the position "00".
C12_ReturnsToRoot ==
    (NavigatingDefault /\ pc = "done" /\ err = "none") => EndsAtRoot

\* The program's side of a state: everything but the printed reports and
\* the count of garbled replies.
Program == <<pc, stack, op, loc, err, log, wire, serialOpen, now, pos>>

\* A step in which the reply to an echo-verified command is not its echo.
MismatchStep == faults' = faults + 1

\* The same read with the command echoed back.
EchoedStep == Next /\ faults' = faults /\ out' = out

\* C13: a reply that is not the echo of an echo-verified command neither
\* halts nor alters the operation.  The read that receives it is the one
\* read after the one write of the command, it raises nothing and only
\* prints; the program continues from the very state in which the read of
\* the echo leaves it, so that everything sent afterwards is the same.
\* The response _sendCommand hands back is the reply received.
C13_MismatchHarmless ==
    [][ /\ MismatchStep =>
            /\ wire # None
            /\ wire' = None
            /\ Len(log') = Len(log)
            /\ ~log[Len(log)].got
            /\ log'[Len(log')].got
            /\ err' = err
            /\ stack' = stack
            /\ out' = out \cup {ErrSend(wire)}
            /\ \E s \in {Program'} : ENABLED (EchoedStep /\ Program' = s)
        /\ (pc = "L292" /\ wire = "E" /\ wire' = None /\ err' = err) =>
            loc'.response = log'[Len(log')].reply
      ]_vars

C13_Witness ==
    /\ op.name = "setVoltage"
    /\ pc = "done"
    /\ err = "none"
    /\ faults > 0
    /\ ErrSend("U") \in out
    /\ \E k \in DOMAIN log : log[k].cmd = "U" /\ log[k].at = "L284"
    /\ VerifyMatch
    /\ EndsAtRoot

\* The places in the log of the flag queries.
FlagReads == { k \in DOMAIN log : log[k].cmd = "?F" }

\* The commands of the log from place k on; a root-seeking that has returned
\* counts as one, the exchanges of one still running are left out.
CommandsFrom(k) ==
    LET tail == SubSeq(log, k, Len(log))
        kept == SelectSeq(tail, LAMBDA e : e.at \notin {"L169", "L173", "L177"})
    IN  [j \in DOMAIN kept |-> kept[j].cmd]

IsPrefix(s, t) == Len(s) <= Len(t) /\ SubSeq(t, 1, Len(s)) = s

\* The bit of weight 4 of the flag word: the third character from the right
\* of its binary form.
UnitsBit(n) == (n \div 4) % 2 = 1

ToElectrical ==
    <<"?F", "goToSetupPosition", "E", "D", "E", "U", "E", "?F",
      "goToSetupPosition">>

\* C14: setElectricalUnits, when the first flag word has the radiological
\* bit set, sends a root-seeking to "00", then "E", "D", "E", "U", "E", then
\* a second "?F", then a root-seeking to "00", in this order and nothing
\* else; when the bit is clear it sends nothing but the first "?F".
C14_UnitsSequence ==
    (/\ op.name \in {"setElectricalUnits", "__init__"}
     /\ FlagReads # {}
     /\ log[Min(FlagReads)].got) =>
        LET f    == Min(FlagReads)
            sent == CommandsFrom(f)
        IN  IF UnitsBit(log[f].reply)
            THEN /\ IsPrefix(sent, ToElectrical)
                 /\ (pc = "done" /\ err = "none") =>
                        /\ sent = ToElectrical
                        /\ Len(log) = f + 8
                        /\ log[f + 1].reply = Root
                        /\ EndsAtRoot
            ELSE /\ sent = <<"?F">>
                 /\ Len(log) = f

C14_Witness ==
    /\ op.name = "setElectricalUnits"
    /\ pc = "done"
    /\ err = "none"
    /\ Len(log) = 9
    /\ log[1].reply = 260
    /\ log[8].cmd = "?F"
    /\ log[8].reply = 4
    /\ ErrUnits \in out

\* The device answered the first "PTW" and the first word is not UNIDOS.
Unrecognised ==
    /\ op.name = "__init__"
    /\ Len(log) >= 1
    /\ log[1].got
    /\ log[1].reply[1] # "UNIDOS"

\* C15: construction does not abort on an unrecognised device.  When the
\* first word of the reply to "PTW" is not the family name, the constructor
\* reports it, asks neither for the version nor for the serial number, goes
\* on to setElectricalUnits (the next request is "?F") and, unless the
\* device stops answering, ends with an open session.
C15_UnrecognisedGoesOn ==
    Unrecognised =>
        /\ err \in {"none", "VisaIOError"}
        /\ pc = "failed" => err = "VisaIOError"
        /\ Len(log) >= 2 => log[2].cmd = "?F" /\ ErrNotUnidos \in out
        /\ pc = "done" =>
              /\ err = "none"
              /\ serialOpen
              /\ ErrNotUnidos \in out
              /\ Len(log) >= 2
              /\ log[2].got

C15_Witness ==
    /\ Unrecognised
    /\ pc = "done"
    /\ err = "none"
    /\ serialOpen
    /\ ErrNotUnidos \in out
    /\ log[2].cmd = "?F"
    /\ UnitsBit(log[2].reply)
    /\ EndsAtRoot

\* C16: integrate asks for the position and invokes root-seeking when, and
\* only when, the position reported is not "00".
C16_SeeksRootWhenAway ==
    (op.name = "integrate" /\ Len(log) >= 1 /\ log[1].got /\ pc \in {"L378", "L381"}
        /\ stack = <<>> /\ Len(log) = 1) =>
        /\ log[1].cmd = "?W"
        /\ (pc = "L378") <=> (log[1].reply # Root)

\* The places in the log of the start command and of the status polls.
Starts == { k \in DOMAIN log : log[k].cmd = "I" }

Polls == { k \in DOMAIN log : log[k].cmd = "?S" }

\* C17: in integrate the start command "I" is sent exactly once.  The
\* integration time has been read before it, the exchange right before it
\* is a position report of "00" (nothing moved the cursor since), and every
\* status poll comes after it.
C17_StartOnceAtRoot ==
    op.name = "integrate" =>
        /\ Cardinality(Starts) <= 1
        /\ \A k \in Starts :
              /\ k > 2
              /\ log[k].at = "L385"
              /\ log[k - 1].cmd = "goToSetupPosition"
              /\ log[k - 1].reply = Root
              /\ log[k - 2].cmd = "V"
              /\ log[k - 2].at = "L330"
              /\ log[k - 2].got
              /\ loc.integrationTime = log[k - 2].reply
        /\ \A p \in Polls : \E k \in Starts : k < p /\ log[k].got
        /\ (pc = "done" /\ err = "none") => Cardinality(Starts) = 1

C17_Witness ==
    /\ op.name = "integrate"
    /\ pc = "done"
    /\ err = "none"
    /\ Cardinality(Starts) = 1
    /\ Cardinality(Polls) >= 2
    /\ log[1].reply # Root

\* The four decimal digits of n, 0 <= n <= 9999.
FourDigits(n) ==
    CharOf(n \div 1000) \o CharOf((n \div 100) % 10)
        \o CharOf((n \div 10) % 10) \o CharOf(n % 10)

\* The running call is setIntegrationTime(t) with an integer 6 <= t <= 9999.
SettingTime ==
    /\ op.name = "setIntegrationTime"
    /\ op.arg.type = "int"
    /\ op.arg.val >= 6
    /\ op.arg.val <= 9999

C19_RequestReply ==
    /\ \A k \in 1..(Len(log) - 1) : log[k].got
    /\ wire # None =>
          /\ Len(log) > 0
          /\ ~log[Len(log)].got
          /\ log[Len(log)].cmd = wire
          /\ log[Len(log)].at = pc
    /\ (wire = None /\ Len(log) > 0 /\ ~log[Len(log)].got) =>
          /\ err = "VisaIOError"
          /\ pc \in {"done", "failed"}

C19_Witness ==
    /\ op.name = "integrate"
    /\ pc = "L391"
    /\ wire = "V"
    /\ Len(log) >= 6
    /\ ~log[Len(log)].got
    /\ \A k \in 1..(Len(log) - 1) : log[k].got
    /\ Polls # {}

\* setVoltage has read the present voltage and it is not an allowed one.
UnlistedStart ==
    /\ op.name = "setVoltage"
    /\ VReads # {}
    /\ log[Min(VReads)].got
    /\ log[Min(VReads)].reply \notin AllowedVoltages

\* C20: when the voltage the device reports at the start of setVoltage is
\* not an allowed voltage, setVoltage ends with an error right after the
\* drill-down: the read of the present voltage is the last request, so no
\* step, no verifying read, no confirmation and no root-seeking is sent,
\* and the cursor stays in the voltage field, away from the root.
C20_UnlistedStartFails ==
    UnlistedStart =>
        /\ CommandsFrom(1) = <<"goToSetupPosition", "D", "E", "D", "E", "V">>
        /\ Len(log) = 6
        /\ pc \in {"L256", "L258", "L280", "done"}
        /\ err \in {"none", "ValueError"}
        /\ pc = "done" => err = "ValueError"
        /\ ErrVoltage \notin out
        /\ pos = <<"0", "1", "0", "1", "0", "0">>

C20_Witness ==
    /\ UnlistedStart
    /\ op.arg = 300
    /\ log[6].reply = 25
    /\ pc = "done"
    /\ err = "ValueError"
    /\ pos # Root

====
